---- MODULE Spec2Model ----
(***************************************************************************)
(* Model of the otherwhere data-ingestion core:                            *)
(*   - GeoNamesLoader.get_diverse_cities  (the diverse sampler)            *)
(*   - FeatureNormalizer.normalize_all    (the two-pass normaliser)        *)
(* Python floats are modelled as exact rationals <<num, den>>; a Python    *)
(* dict is modelled as the sequence of its <<key, value>> pairs in         *)
(* insertion order.                                                        *)
(***************************************************************************)
EXTENDS Integers, Sequences, FiniteSets, TLC

VARIABLES
    \* ---- sampler (geonames_loader.py) ----
    cities_file,            \* rows of data/cities15000.txt
    COUNTRY_TO_CONTINENT,   \* module-level map, filled by _load_country_info
    s_pc,                   \* position inside get_diverse_cities
    target,                 \* argument of the running / last call
    max_per_country,        \* argument of the running / last call
    by_country,             \* dict country -> list of cities
    countries_by_continent, \* dict continent -> list of countries
    result,                 \* list of selected cities, all continents
    k,                      \* position in continent_quotas.items()
    selected,               \* list of cities selected for the current continent
    country_indices,        \* dict country -> next index into its bucket
    j,                      \* position of the inner "for country in countries"
    added_any,              \* flag of the current sweep
    returned,               \* values returned to the caller, one per call
    \* ---- normaliser (normalizer.py) ----
    stats,                  \* self.stats: dict field name -> statistics
    destinations,           \* the list passed to normalize_all (mutated in place)
    n_pc,                   \* position inside normalize_all
    n_i,                    \* position of "for dest in destinations"
    n_exc,                  \* the exception normalize_all raised, None if none
    raw,                    \* the caller's checkpoint of the batch before the call
    n_returned,             \* the list normalize_all returned
    n_calls,                \* normalize_all calls made on the object so far
    other,                  \* a second thread's normalize_all call on the same
                            \* object: its pc, destinations, i, exc, raw, returned
    \* ---- pipeline (run_ingestion.py, fetch_destinations.py,
    \*      upload_to_firestore.py) ----
    ingest,                 \* run_ingestion.main: pc, destinations, i, and what
                            \* was fetched, attempted, failed, passed on
    upload,                 \* upload_destinations: pc, i, batch, count, and the
                            \* state of the Firestore collection
    fetch                   \* fetch_destinations: pc, limit, the raw lists, i,
                            \* all_destinations, the value returned

s_vars == <<cities_file, COUNTRY_TO_CONTINENT, s_pc, target, max_per_country,
            by_country, countries_by_continent, result, k, selected,
            country_indices, j, added_any, returned>>
n_vars == <<stats, destinations, n_pc, n_i, n_exc, raw, n_returned, n_calls, other>>
x_vars == <<ingest, upload, fetch>>
vars == <<s_vars, n_vars, x_vars>>

(***************************************************************************)
(* Bounds of the model.                                                    *)
(***************************************************************************)
MaxCities == 3      \* rows in the cities file
MaxTarget == 12     \* largest target passed to the sampler
TargetStep == 4     \* the targets passed are the multiples of TargetStep
MaxCap    == 2      \* largest max_per_country passed to the sampler
MaxCalls  == 2      \* invocations of the sampler on one loader
MaxBatch  == 3      \* destinations in a batch passed to normalize_all
MaxRegions == 2     \* records the curated region list hands to a fetch

(***************************************************************************)
(* Python helpers.                                                         *)
(***************************************************************************)
\* int(x) of the float n/d, d > 0: truncation toward zero
IntTrunc(n, d) == IF n >= 0 THEN n \div d ELSE -((-n) \div d)

\* s[:m] for a list s and an int m (a negative m counts from the end)
PySliceTo(s, m) ==
    LET n == IF m >= 0 THEN (IF m < Len(s) THEN m ELSE Len(s))
                       ELSE (IF Len(s) + m > 0 THEN Len(s) + m ELSE 0)
    IN  SubSeq(s, 1, n)

\* dict helpers: a dict is a sequence of <<key, value>> pairs
DictHas(d, key) == \E i \in 1..Len(d) : d[i][1] = key
DictIndex(d, key) == CHOOSE i \in 1..Len(d) : d[i][1] = key
DictGet(d, key) == d[DictIndex(d, key)][2]
DictGetOr(d, key, default) == IF DictHas(d, key) THEN DictGet(d, key) ELSE default
DictSet(d, key, val) ==
    IF DictHas(d, key)
    THEN [d EXCEPT ![DictIndex(d, key)] = <<key, val>>]
    ELSE Append(d, <<key, val>>)

(***************************************************************************)
(* The data files.                                                         *)
(***************************************************************************)
\* countryInfo.txt after _load_country_info: code -> continent, name
CountryInfo ==
    << <<"FR", [continent |-> "Europe", name |-> "France"]>>,
       <<"DE", [continent |-> "Europe", name |-> "Germany"]>>,
       <<"JP", [continent |-> "Asia",   name |-> "Japan"]>>,
       <<"IT", [continent |-> "Europe", name |-> "Italy"]>> >>

\* the <<country code, population>> pairs a row of the cities file is drawn
\* from: two countries of one continent and one of another, equal and
\* different populations within a country, a row below min_population
RowKinds ==
    { <<"FR", 60000>>, <<"FR", 90000>>,
      <<"DE", 40000>>, <<"DE", 60000>>,
      <<"JP", 60000>> }

\* the files the loader can be constructed on: up to MaxCities rows, the
\* geonameid of a row being its (unique) position in the file
RowsOfLen(n) ==
    { [i \in 1..n |-> [geonameid |-> i, country_code |-> cp[i][1], population |-> cp[i][2]]] :
        cp \in [1..n -> RowKinds] }
CityFiles == UNION { RowsOfLen(n) : n \in 0..MaxCities }

\* the arguments the sampler is called with
Targets == { t \in 0..MaxTarget : t % TargetStep = 0 }
Caps == 1..MaxCap

(***************************************************************************)
(* load_cities                                                             *)
(***************************************************************************)
RECURSIVE LoadCities(_, _)
LoadCities(rows, min_population) ==
    IF rows = <<>> THEN <<>>
    ELSE LET row == Head(rows)
             rest == LoadCities(Tail(rows), min_population)
         IN  IF row.population < min_population THEN rest
             ELSE IF ~DictHas(COUNTRY_TO_CONTINENT, row.country_code) THEN rest
             ELSE LET info == DictGet(COUNTRY_TO_CONTINENT, row.country_code)
                  IN  <<[geonameid    |-> row.geonameid,
                         country_code |-> row.country_code,
                         country      |-> info.name,
                         continent    |-> info.continent,
                         population   |-> row.population]>> \o rest

(***************************************************************************)
(* get_diverse_cities: grouping, capping, quotas                           *)
(***************************************************************************)
\* by_country after the grouping loop
RECURSIVE GroupByCountry(_, _)
GroupByCountry(cities, acc) ==
    IF cities = <<>> THEN acc
    ELSE LET city == Head(cities)
             old == DictGetOr(acc, city.country, <<>>)
         IN  GroupByCountry(Tail(cities), DictSet(acc, city.country, Append(old, city)))

\* mutant: the sort is not stable, a tie puts the later city first
RECURSIVE InsertDesc_Unstable(_, _)
InsertDesc_Unstable(sorted, city) ==
    IF sorted = <<>> THEN <<city>>
    ELSE IF Head(sorted).population > city.population
         THEN <<Head(sorted)>> \o InsertDesc_Unstable(Tail(sorted), city)
         ELSE <<city>> \o sorted

\* list.sort(key=population, reverse=True): stable, descending
RECURSIVE InsertDesc(_, _)
InsertDesc(sorted, city) ==
    IF sorted = <<>> THEN <<city>>
    ELSE IF Head(sorted).population >= city.population
         THEN <<Head(sorted)>> \o InsertDesc(Tail(sorted), city)
         ELSE <<city>> \o sorted

RECURSIVE SortByPopulationDesc(_)
SortByPopulationDesc(cities) ==
    IF cities = <<>> THEN <<>>
    ELSE InsertDesc(SortByPopulationDesc(SubSeq(cities, 1, Len(cities) - 1)),
                    cities[Len(cities)])

\* mutant: the bucket is truncated but not sorted
CapBucket_Unsorted(cities, cap) == PySliceTo(cities, cap)

\* mutant: the bucket is sorted but not truncated
CapBucket_NoCap(cities, cap) == SortByPopulationDesc(cities)

\* one bucket after sort and cities[:max_per_country]
CapBucket(cities, cap) == PySliceTo(SortByPopulationDesc(cities), cap)

CapCountries(d, cap) == [i \in 1..Len(d) |-> <<d[i][1], CapBucket(d[i][2], cap)>>]

\* countries_by_continent from the capped by_country
RECURSIVE GroupByContinent(_, _)
GroupByContinent(d, acc) ==
    IF d = <<>> THEN acc
    ELSE LET country == Head(d)[1]
             cities == Head(d)[2]
         IN  IF cities = <<>> THEN GroupByContinent(Tail(d), acc)
             ELSE LET continent == cities[1].continent
                      old == DictGetOr(acc, continent, <<>>)
                  IN  GroupByContinent(Tail(d), DictSet(acc, continent, Append(old, country)))

\* mutant: the quotas are rounded up instead of truncated
ContinentQuotas_Ceil(t) ==
    << <<"Europe",        (t * 25 + 99) \div 100>>,
       <<"Asia",          (t * 30 + 99) \div 100>>,
       <<"North America", (t * 15 + 99) \div 100>>,
       <<"South America", (t * 10 + 99) \div 100>>,
       <<"Africa",        (t * 12 + 99) \div 100>>,
       <<"Oceania",       (t * 8 + 99) \div 100>> >>

\* continent_quotas, in the order of the dict literal
ContinentQuotas(t) ==
    << <<"Europe",        IntTrunc(t * 25, 100)>>,
       <<"Asia",          IntTrunc(t * 30, 100)>>,
       <<"North America", IntTrunc(t * 15, 100)>>,
       <<"South America", IntTrunc(t * 10, 100)>>,
       <<"Africa",        IntTrunc(t * 12, 100)>>,
       <<"Oceania",       IntTrunc(t * 8, 100)>> >>

MinPopulation == 50000

(***************************************************************************)
(* get_diverse_cities: the selection loops                                 *)
(***************************************************************************)
\* the entry of continent_quotas.items() the outer for loop is at
Continent == ContinentQuotas(target)[k][1]
Quota == ContinentQuotas(target)[k][2]
\* countries = countries_by_continent.get(continent, [])
Countries == DictGetOr(countries_by_continent, Continent, <<>>)

\* mutant: the result list of the previous call is kept
InitialResult_Kept == result

\* result = [] at the start of the distribution
InitialResult == <<>>

\* mutant: the indices start behind the first record of each bucket
InitialIndices_One(countries) == [i \in 1..Len(countries) |-> <<countries[i], 1>>]

\* country_indices = {country: 0 for country in countries}
InitialIndices(countries) == [i \in 1..Len(countries) |-> <<countries[i], 0>>]

\* mutant: the index of the country is not advanced
AdvanceIndex_Stuck(indices, country) == indices

\* country_indices[country] += 1
AdvanceIndex(indices, country) == DictSet(indices, country, DictGet(indices, country) + 1)

\* mutant: the continent's selection is put in front of the result
Extend_Prepend(res, sel) == sel \o res

\* result.extend(selected)
Extend(res, sel) == res \o sel

\* mutant: the sweep does not move on to the next country
NextPosition_Stay(jj) == jj

\* line 197: for country in countries -- the position of the next country
NextPosition(jj) == jj + 1

\* mutant: the selection stops one record late
QuotaReached_Late(sel, quota) == Len(sel) > quota

\* line 203: if len(selected) >= quota: break
QuotaReached(sel, quota) == Len(sel) >= quota

SamplerInitOn(files) ==
    /\ cities_file \in files
    /\ COUNTRY_TO_CONTINENT = CountryInfo
    /\ s_pc = "idle"
    /\ target = 0
    /\ max_per_country = 0
    /\ by_country = <<>>
    /\ countries_by_continent = <<>>
    /\ result = <<>>
    /\ k = 1
    /\ selected = <<>>
    /\ country_indices = <<>>
    /\ j = 1
    /\ added_any = FALSE
    /\ returned = <<>>

\* no second thread has called normalize_all
OtherIdle == [pc |-> "idle", destinations |-> <<>>, i |-> 1, exc |-> <<0, 0>>,
              raw |-> <<>>, returned |-> <<>>]

\* FeatureNormalizer.__init__: self.stats = {}
NormalizerInit ==
    /\ stats = <<>>
    /\ destinations = <<>>
    /\ n_pc = "idle"
    /\ n_i = 1
    /\ n_exc = <<0, 0>>
    /\ raw = <<>>
    /\ n_returned = <<>>
    /\ n_calls = 0
    /\ other = OtherIdle

\* run_ingestion.main has not started
IngestIdle == [pc |-> "idle", destinations |-> <<>>, i |-> 1, fetched |-> <<>>,
               attempted |-> {}, failed |-> {}, saved |-> <<>>, passed |-> <<>>]
\* upload_destinations has not been called
UploadIdle == [pc |-> "idle"]
\* fetch_destinations has not been called
FetchIdle == [pc |-> "idle"]
PipelineIdle == ingest = IngestIdle /\ upload = UploadIdle /\ fetch = FetchIdle

\* a loader constructed on one of the files, and a fresh normaliser
SamplerInit == SamplerInitOn(CityFiles) /\ NormalizerInit /\ PipelineIdle

\* lines 138-182: load, group by country, cap, group by continent, quotas.
\* A repeated invocation on the same loader passes the same arguments.
GetDiverseCities(t, m) ==
    /\ s_pc = "idle"
    /\ Len(returned) < MaxCalls
    /\ returned = <<>> \/ (t = target /\ m = max_per_country)
    /\ LET all_cities == LoadCities(cities_file, MinPopulation)
           capped == CapCountries(GroupByCountry(all_cities, <<>>), m)
       IN  /\ by_country' = capped
           /\ countries_by_continent' = GroupByContinent(capped, <<>>)
    /\ target' = t
    /\ max_per_country' = m
    /\ result' = InitialResult
    /\ k' = 1
    /\ selected' = <<>>
    /\ country_indices' = <<>>
    /\ j' = 1
    /\ added_any' = FALSE
    /\ s_pc' = "continent"
    /\ UNCHANGED <<n_vars, x_vars, cities_file, COUNTRY_TO_CONTINENT, returned>>

\* mutant: a continent without countries ends the distribution (break)
ContinentSkip_Break ==
    /\ s_pc = "continent"
    /\ k <= Len(ContinentQuotas(target))
    /\ Countries = <<>>
    /\ k' = Len(ContinentQuotas(target)) + 1
    /\ UNCHANGED <<n_vars, x_vars, cities_file, COUNTRY_TO_CONTINENT, s_pc, target, max_per_country,
                   by_country, countries_by_continent, result, selected,
                   country_indices, j, added_any, returned>>

\* lines 184-187: a continent without countries is skipped
ContinentSkip ==
    /\ s_pc = "continent"
    /\ k <= Len(ContinentQuotas(target))
    /\ Countries = <<>>
    /\ k' = k + 1
    /\ UNCHANGED <<n_vars, x_vars, cities_file, COUNTRY_TO_CONTINENT, s_pc, target, max_per_country,
                   by_country, countries_by_continent, result, selected,
                   country_indices, j, added_any, returned>>

\* lines 189-195 (and 210 when the while loop is not entered): the
\* round-robin of a continent starts
ContinentStart ==
    /\ s_pc = "continent"
    /\ k <= Len(ContinentQuotas(target))
    /\ Countries # <<>>
    /\ country_indices' = InitialIndices(Countries)
    /\ IF 0 < Quota
       THEN /\ selected' = <<>>
            /\ added_any' = FALSE
            /\ j' = 1
            /\ s_pc' = "visit"
            /\ UNCHANGED <<result, k>>
       ELSE /\ selected' = <<>>
            /\ result' = Extend(result, <<>>)
            /\ k' = k + 1
            /\ UNCHANGED <<added_any, j, s_pc>>
    /\ UNCHANGED <<n_vars, x_vars, cities_file, COUNTRY_TO_CONTINENT, target, max_per_country,
                   by_country, countries_by_continent, returned>>

\* lines 197-210: one iteration of "for country in countries", with the
\* control flow that follows it (break, end of sweep, while test, extend)
VisitCountry ==
    /\ s_pc = "visit"
    /\ LET country == Countries[j]
           bucket == DictGet(by_country, country)
           idx == DictGet(country_indices, country)
           take == idx < Len(bucket)
           sel == IF take THEN Append(selected, bucket[idx + 1]) ELSE selected
           ind == IF take THEN AdvanceIndex(country_indices, country) ELSE country_indices
           any == added_any \/ take
           full == take /\ QuotaReached(sel, Quota)
       IN  /\ selected' = sel
           /\ country_indices' = ind
           /\ IF full
              THEN \* break; added_any is set; the while test fails; extend
                   /\ result' = Extend(result, sel)
                   /\ k' = k + 1
                   /\ s_pc' = "continent"
                   /\ added_any' = any
                   /\ UNCHANGED j
              ELSE IF j < Len(Countries)
              THEN \* next country of this sweep
                   /\ j' = NextPosition(j)
                   /\ added_any' = any
                   /\ UNCHANGED <<result, k, s_pc>>
              ELSE IF ~any
              THEN \* the sweep added nothing: break; extend
                   /\ result' = Extend(result, sel)
                   /\ k' = k + 1
                   /\ s_pc' = "continent"
                   /\ added_any' = any
                   /\ UNCHANGED j
              ELSE \* len(selected) < quota: next sweep
                   /\ added_any' = FALSE
                   /\ j' = 1
                   /\ UNCHANGED <<result, k, s_pc>>
    /\ UNCHANGED <<n_vars, x_vars, cities_file, COUNTRY_TO_CONTINENT, target, max_per_country,
                   by_country, countries_by_continent, returned>>

\* lines 216-218: all continents done, return result
SamplerReturn ==
    /\ s_pc = "continent"
    /\ k > Len(ContinentQuotas(target))
    /\ returned' = Append(returned, [target |-> target, max_per_country |-> max_per_country,
                                     value |-> result])
    /\ s_pc' = "idle"
    /\ UNCHANGED <<n_vars, x_vars, cities_file, COUNTRY_TO_CONTINENT, target, max_per_country,
                   by_country, countries_by_continent, result, k, selected,
                   country_indices, j, added_any>>

\* a caller invokes get_diverse_cities
CallGetDiverseCities == s_pc = "idle" /\ \E t \in Targets, m \in Caps : GetDiverseCities(t, m)

SamplerNext ==
    \/ CallGetDiverseCities
    \/ ContinentSkip
    \/ ContinentStart
    \/ VisitCountry
    \/ SamplerReturn

SpecSampler == SamplerInit /\ [][SamplerNext]_vars

\* get_diverse_cities(target: int, max_per_country: int) takes any integers:
\* a caller passing a negative target or a cap of 0 or less
ArgTargets == {-TargetStep, MaxTarget}
ArgCaps == (-1)..1
CallGetDiverseCitiesAnyArgs ==
    s_pc = "idle" /\ \E t \in ArgTargets, m \in ArgCaps : GetDiverseCities(t, m)

SamplerArgsNext ==
    \/ CallGetDiverseCitiesAnyArgs
    \/ ContinentSkip
    \/ ContinentStart
    \/ VisitCountry
    \/ SamplerReturn

SpecSamplerArgs == SamplerInit /\ [][SamplerArgsNext]_vars

\* a catalog of twelve eligible cities, four of each of three countries of
\* Europe, the cities of a country in one of several population orders and
\* the countries grouped or interleaved in the file; the calls made on it
ScenarioCodes == <<"FR", "DE", "IT">>
PopOrders ==
    { <<60000, 70000, 80000, 90000>>,
      <<90000, 80000, 70000, 60000>>,
      <<70000, 90000, 60000, 80000>> }
ScenarioFile(o, grouped) ==
    LET nc == Len(ScenarioCodes)
        np == Len(o[1])
    IN  [i \in 1..(nc * np) |->
            LET c == IF grouped THEN ((i - 1) \div np) + 1 ELSE ((i - 1) % nc) + 1
                w == IF grouped THEN ((i - 1) % np) + 1 ELSE ((i - 1) \div nc) + 1
            IN  [geonameid |-> i, country_code |-> ScenarioCodes[c], population |-> o[c][w]]]
ScenarioFiles ==
    { ScenarioFile(o, g) : o \in [1..Len(ScenarioCodes) -> PopOrders], g \in BOOLEAN }
ScenarioArgs == { <<4, 2>>, <<16, 2>> }

SamplerScenarioInit == SamplerInitOn(ScenarioFiles) /\ NormalizerInit /\ PipelineIdle

CallGetDiverseCitiesScenario ==
    s_pc = "idle" /\ \E a \in ScenarioArgs : GetDiverseCities(a[1], a[2])

SamplerScenarioNext ==
    \/ CallGetDiverseCitiesScenario
    \/ ContinentSkip
    \/ ContinentStart
    \/ VisitCountry
    \/ SamplerReturn

SpecSamplerScenario == SamplerScenarioInit /\ [][SamplerScenarioNext]_vars

(***************************************************************************)
(* Claims about the sampler.                                               *)
(***************************************************************************)
\* the split of the target over the continents, in percent
SplitPercent ==
    [c \in {"Europe", "Asia", "North America", "South America", "Africa", "Oceania"} |->
        CASE c = "Europe" -> 25 [] c = "Asia" -> 30 [] c = "North America" -> 15
          [] c = "South America" -> 10 [] c = "Africa" -> 12 [] c = "Oceania" -> 8]
AllContinents == DOMAIN SplitPercent
FloorQuota(t, c) == (t * SplitPercent[c]) \div 100

RECURSIVE SumOver(_, _)
SumOver(f, S) == IF S = {} THEN 0 ELSE LET x == CHOOSE y \in S : TRUE
                                       IN  f[x] + SumOver(f, S \ {x})
SumFloorQuotas(t) == SumOver([c \in AllContinents |-> FloorQuota(t, c)], AllContinents)

CountWhere(seq, P(_)) == Cardinality({i \in 1..Len(seq) : P(seq[i])})
CountCountry(seq, country) == CountWhere(seq, LAMBDA c : c.country = country)
CountContinent(seq, continent) == CountWhere(seq, LAMBDA c : c.continent = continent)

\* the rows of the file that load_cities keeps, per country code
EligibleRows(code) ==
    Cardinality({i \in 1..Len(cities_file) :
        /\ cities_file[i].country_code = code
        /\ cities_file[i].population >= 50000})
InfoOf(code) == CountryInfo[CHOOSE i \in 1..Len(CountryInfo) : CountryInfo[i][1] = code][2]
KnownCodes == {CountryInfo[i][1] : i \in 1..Len(CountryInfo)}
Min(a, b) == IF a <= b THEN a ELSE b
\* the records of a continent's countries that remain after capping
PoolSize(continent, cap) ==
    SumOver([code \in KnownCodes |->
                IF InfoOf(code).continent = continent THEN Min(cap, EligibleRows(code)) ELSE 0],
            KnownCodes)

\* C1: for max_per_country >= 1 the output of the sampler holds at most
\* max_per_country records of any one country.
C1_CapInvariant ==
    \A i \in 1..Len(returned) :
        returned[i].max_per_country >= 1 =>
            \A code \in KnownCodes :
                CountCountry(returned[i].value, InfoOf(code).name) <= returned[i].max_per_country

\* C1 witness: a call returned with a country at its cap although the file
\* holds more eligible rows of that country and its continent's quota was
\* not filled (the cap, not the quota, limited the country).
C1_Witness ==
    \E i \in 1..Len(returned), code \in KnownCodes :
        LET r == returned[i]
        IN  /\ r.max_per_country >= 1
            /\ EligibleRows(code) > r.max_per_country
            /\ CountCountry(r.value, InfoOf(code).name) = r.max_per_country
            /\ CountContinent(r.value, InfoOf(code).continent)
                   < FloorQuota(r.target, InfoOf(code).continent)

\* C2: for every continent the number of returned records of that continent
\* is at most floor(target * split), and equals it whenever the continent's
\* capped pool holds at least that many records.
C2_QuotaInvariant ==
    \A i \in 1..Len(returned) :
        LET r == returned[i]
        IN  (r.target >= 0 /\ r.max_per_country >= 1) =>
                \A c \in AllContinents :
                    /\ CountContinent(r.value, c) <= FloorQuota(r.target, c)
                    /\ PoolSize(c, r.max_per_country) >= FloorQuota(r.target, c)
                           => CountContinent(r.value, c) = FloorQuota(r.target, c)

\* C2 witness: a call returned where a continent's capped pool exceeded its
\* positive quota, so that the quota cut the selection, and a second
\* continent was selected from as well.
C2_Witness ==
    \E i \in 1..Len(returned), c1 \in AllContinents :
        LET r == returned[i]
        IN  /\ FloorQuota(r.target, c1) > 0
            /\ PoolSize(c1, r.max_per_country) > FloorQuota(r.target, c1)
            /\ CountContinent(r.value, c1) = FloorQuota(r.target, c1)
            /\ Len(r.value) > CountContinent(r.value, c1)

\* C3: the file holding every record once, the output holds no record more
\* than once.
C3_NoDuplicates ==
    \A i \in 1..Len(returned) :
        \A a, b \in 1..Len(returned[i].value) :
            a # b => returned[i].value[a] # returned[i].value[b]

\* C3 witness: a call returned three records, two of them of one country
\* (taken in two sweeps) and one of another continent.
C3_Witness ==
    \E i \in 1..Len(returned) :
        LET v == returned[i].value
        IN  /\ Len(v) >= 3
            /\ \E a, b \in 1..Len(v) : a # b /\ v[a].country = v[b].country
            /\ \E a, b \in 1..Len(v) : v[a].continent # v[b].continent

\* C4: for target >= 0 the output holds at most target records: it holds at
\* most the sum of the truncated quotas, which is at most target.
C4_TotalAtMostTarget ==
    \A i \in 1..Len(returned) :
        returned[i].target >= 0 =>
            /\ Len(returned[i].value) <= SumFloorQuotas(returned[i].target)
            /\ SumFloorQuotas(returned[i].target) <= returned[i].target

\* C4 witness: a call returned fewer records than target although every
\* positive quota it could fill was filled and eligible records were left
\* over: the truncation shortfall was not redistributed.
C4_Witness ==
    \E i \in 1..Len(returned) :
        LET r == returned[i]
        IN  /\ r.target > 0
            /\ Len(r.value) > 0
            /\ Len(r.value) = SumFloorQuotas(r.target)
            /\ Len(r.value) < r.target
            /\ SumOver([code \in KnownCodes |-> Min(r.max_per_country, EligibleRows(code))],
                       KnownCodes) > Len(r.value)

\* C5: two invocations with the same file, target and max_per_country
\* return the same sequence of records.
C5_Deterministic ==
    \A a, b \in 1..Len(returned) :
        (returned[a].target = returned[b].target
            /\ returned[a].max_per_country = returned[b].max_per_country)
        => returned[a].value = returned[b].value

\* C5 witness: two invocations have returned, each at least two records.
C5_Witness ==
    /\ Len(returned) >= 2
    /\ returned[1].target = returned[2].target
    /\ returned[1].max_per_country = returned[2].max_per_country
    /\ Len(returned[1].value) >= 2
    /\ Len(returned[2].value) >= 2

\* C14: a call with a negative target or with max_per_country <= 0 fails
\* with an error before any candidate is processed: it never returns a
\* selection, so every returned call had valid arguments.
C14_InvalidArgsNeverReturn ==
    \A i \in 1..Len(returned) :
        returned[i].target >= 0 /\ returned[i].max_per_country >= 1

\* the position of each country of the continent under selection, and the
\* size of its capped bucket
Picks(p) == country_indices[p][2]
BucketSize(p) == Len(DictGet(by_country, country_indices[p][1]))

\* C19: for valid arguments the sampler does not raise: every list access
\* of the distribution is in range; a file without eligible rows gives an
\* empty result; and each continent contributes min(quota, capped pool)
\* records, so a continent without countries contributes 0 and the other
\* continents contribute what their own pools and quotas give (the values
\* returned are looked at when the loader is idle, where every one of
\* them first appears).
C19_NoRaiseAbsentContinent ==
    /\ s_pc = "visit" =>
          /\ k \in 1..Len(ContinentQuotas(target))
          /\ j \in 1..Len(Countries)
          /\ DictHas(by_country, Countries[j])
          /\ DictHas(country_indices, Countries[j])
    /\ \A p \in 1..Len(country_indices) :
          /\ DictHas(by_country, country_indices[p][1])
          /\ Picks(p) <= BucketSize(p)
    /\ \A i \in 1..Len(returned) :
          LET r == returned[i]
          IN  (s_pc = "idle" /\ r.target >= 0 /\ r.max_per_country >= 1) =>
                /\ (\A code \in KnownCodes : EligibleRows(code) = 0) => r.value = <<>>
                /\ \A c \in AllContinents :
                      CountContinent(r.value, c)
                          = Min(FloorQuota(r.target, c), PoolSize(c, r.max_per_country))

\* C19 witness: a call returned records of Asia from a file that holds no
\* eligible row of Europe, the first continent of the distribution.
C19_Witness ==
    \E i \in 1..Len(returned) :
        LET r == returned[i]
        IN  /\ r.max_per_country >= 1
            /\ PoolSize("Europe", r.max_per_country) = 0
            /\ CountContinent(r.value, "Europe") = 0
            /\ PoolSize("Asia", r.max_per_country) >= 2
            /\ CountContinent(r.value, "Asia") >= 2

\* C20: at every point of a continent's selection a country has
\* contributed at most one record more than any other country whose capped
\* bucket is not exhausted, and a country later in the sweep order has
\* contributed no more than an earlier one whose bucket is not exhausted.
C20_RoundRobinFair ==
    \A a, b \in 1..Len(country_indices) :
        Picks(b) < BucketSize(b) =>
            /\ Picks(a) <= Picks(b) + 1
            /\ a > b => Picks(a) <= Picks(b)

\* C20 witness: in the middle of a sweep one country has contributed a
\* record and another, with entries left, has not had its pick yet.
C20_Witness ==
    /\ s_pc = "visit"
    /\ \E a, b \in 1..Len(country_indices) :
          /\ Picks(a) = 1
          /\ Picks(b) = 0
          /\ BucketSize(b) > 0

\* the catalog holds 12 candidates of 3 countries of one continent
TwelveOfThree ==
    /\ Len(cities_file) = 12
    /\ Cardinality({cities_file[i].country_code : i \in 1..Len(cities_file)}) = 3
    /\ \A i \in 1..Len(cities_file) :
          /\ cities_file[i].country_code \in KnownCodes
          /\ InfoOf(cities_file[i].country_code).continent = "Europe"
          /\ cities_file[i].population >= 50000
\* exactly 4 records, at most 2 of a country, and the records of a country
\* are its most populous: no city of the country left out has more
\* people than one that was returned
FourTopRecords(value) ==
    /\ Len(value) = 4
    /\ \A code \in KnownCodes : CountCountry(value, InfoOf(code).name) <= 2
    /\ \A a \in 1..Len(value) : \A x \in 1..Len(cities_file) :
          (/\ cities_file[x].country_code = value[a].country_code
           /\ \A b \in 1..Len(value) : value[b].geonameid # cities_file[x].geonameid)
          => cities_file[x].population <= value[a].population

OfCountry(seq, country) == SelectSeq(seq, LAMBDA c : c.country = country)
IsPrefix(s, t) == Len(s) <= Len(t) /\ s = SubSeq(t, 1, Len(s))
\* a comes before b in a bucket: more people, or as many and earlier in
\* the catalog (the geonameid of a row is its position in the file)
BucketOrder(a, b) ==
    \/ a.population > b.population
    \/ a.population = b.population /\ a.geonameid < b.geonameid

\* C21: after capping a country's bucket holds at most max_per_country
\* records, in descending population with ties in catalog order; what is
\* selected of a country (in the running continent, in the result so far
\* and in the value returned) is a prefix of its bucket in that order, so
\* no city of the country that is left out has more people than one that
\* was selected.
C21_BucketSortedPrefix ==
    \A p \in 1..Len(by_country) :
        LET country == by_country[p][1]
            b == by_country[p][2]
        IN  /\ Len(b) <= max_per_country
            /\ \A x, y \in 1..Len(b) : x < y => BucketOrder(b[x], b[y])
            /\ IsPrefix(OfCountry(selected, country), b)
            /\ IsPrefix(OfCountry(result, country), b)
            /\ (s_pc = "idle" /\ returned # <<>>) =>
                  LET v == OfCountry(returned[Len(returned)].value, country)
                  IN  /\ IsPrefix(v, b)
                      /\ \A a \in 1..Len(v) : \A x \in 1..Len(cities_file) :
                            (/\ cities_file[x].population >= 50000
                             /\ cities_file[x].country_code = v[a].country_code
                             /\ \A c \in 1..Len(v) : v[c].geonameid # cities_file[x].geonameid)
                            => cities_file[x].population <= v[a].population

\* C21 witness: a call returned two records of a country, the first of
\* them later in the catalog than the second (the sort moved it up), and
\* a third city of the country, with the population of the second and
\* later in the catalog, was cut by the cap.
C21_Witness ==
    /\ s_pc = "idle"
    /\ returned # <<>>
    /\ \E p \in 1..Len(by_country) :
          LET v == OfCountry(returned[Len(returned)].value, by_country[p][1])
          IN  /\ Len(v) = 2
              /\ v[1].population > v[2].population
              /\ v[1].geonameid > v[2].geonameid
              /\ \E x \in 1..Len(cities_file) :
                    /\ cities_file[x].country_code = v[2].country_code
                    /\ cities_file[x].population = v[2].population
                    /\ cities_file[x].geonameid > v[2].geonameid

\* the order in which the continents are to appear in the output
ContinentOrder ==
    <<"Europe", "Asia", "North America", "South America", "Africa", "Oceania">>
Rank(continent) == CHOOSE n \in 1..Len(ContinentOrder) : ContinentOrder[n] = continent
InContinentOrder(seq) ==
    \A a, b \in 1..Len(seq) : a < b => Rank(seq[a].continent) <= Rank(seq[b].continent)

\* C22: the output is the concatenation of the per-continent selections in
\* the order Europe, Asia, North America, South America, Africa, Oceania:
\* the records of a continent are contiguous and precede those of every
\* later continent, in the result under construction and in every value
\* returned.
C22_ContinentOrder ==
    /\ InContinentOrder(result)
    /\ \A i \in 1..Len(returned) : InContinentOrder(returned[i].value)
    /\ [n \in 1..Len(ContinentQuotas(target)) |-> ContinentQuotas(target)[n][1]] = ContinentOrder

\* C22 witness: a call returned two records of Europe followed by one of
\* Asia, from a file in which the row of Asia comes first.
C22_Witness ==
    \E i \in 1..Len(returned) :
        LET v == returned[i].value
        IN  /\ Len(v) = 3
            /\ v[1].continent = "Europe"
            /\ v[2].continent = "Europe"
            /\ v[3].continent = "Asia"
            /\ v[3].geonameid = 1

\* the records of the running continent's buckets not yet consumed
Remaining ==
    SumOver([p \in 1..Len(country_indices) |-> BucketSize(p) - Picks(p)],
            1..Len(country_indices))
\* a natural number that every step of the round-robin makes smaller
Variant ==
    LET n == Len(country_indices)
    IN  Remaining * (n + 2) + (IF added_any THEN n + 1 ELSE 0) + (n - j)

\* C23: the round-robin of a continent terminates: every step of it that
\* does not end it decreases a natural number; it runs only while the
\* quota is unmet; and when it ends, the quota is reached or every record
\* of every bucket of the continent's countries has been selected.
C23_RoundRobinTerminates ==
    [][ s_pc = "visit" =>
          /\ Len(selected) < Quota
          /\ Variant >= 0
          /\ s_pc' = "visit" => (Variant' < Variant /\ Variant' >= 0)
          /\ s_pc' = "continent" =>
                \/ Len(selected') >= Quota
                \/ \A p \in 1..Len(Countries) :
                      LET b == DictGet(by_country, Countries[p])
                      IN  \A x \in 1..Len(b) :
                            \E y \in 1..Len(selected') : selected'[y] = b[x]
      ]_vars

\* C23 witness: the round-robin of Europe has ended with two records, one
\* short of its quota of three, the buckets being exhausted.
C23_Witness ==
    /\ s_pc = "continent"
    /\ k = 2
    /\ Len(selected) = 2
    /\ ContinentQuotas(target)[1][2] = 3

(***************************************************************************)
(* Feature values.  A Python float or int is the exact rational           *)
(* <<num, den>> with den > 0, in lowest terms; None is <<0, 0>>.  An       *)
(* operation that raises yields one of the exception markers (den < 0).    *)
(***************************************************************************)
None == <<0, 0>>
TypeError == <<0, -1>>
ZeroDivisionError == <<1, -1>>
IsNum(v) == v[2] > 0
Raised(v) == v[2] < 0

\* a value that is neither None nor a number: a str
Str == <<1, 0>>

\* line 53: "v is not None and v > 0" raises TypeError for a value that
\* is not None and cannot be compared with 0
WrongKind(v) == v # None /\ ~IsNum(v)

Abs(n) == IF n < 0 THEN -n ELSE n
RECURSIVE GCD(_, _)
GCD(a, b) == IF b = 0 THEN a ELSE GCD(b, a % b)

\* the rational n/d (d # 0) in lowest terms with a positive denominator
Rat(n, d) ==
    LET g == GCD(Abs(n), Abs(d))
        sgn == IF d < 0 THEN -1 ELSE 1
    IN  <<sgn * (n \div g), sgn * (d \div g)>>      \* g divides n and d exactly
Num(n) == <<n, 1>>
Zero == Num(0)
One == Num(1)
Half == <<1, 2>>

RLe(a, b) == a[1] * b[2] <= b[1] * a[2]
RLt(a, b) == a[1] * b[2] < b[1] * a[2]
RAdd(a, b) == Rat(a[1] * b[2] + b[1] * a[2], a[2] * b[2])
RSub(a, b) == Rat(a[1] * b[2] - b[1] * a[2], a[2] * b[2])
RMul(a, b) == Rat(a[1] * b[1], a[2] * b[2])
\* a / b: ZeroDivisionError when b is 0
RDiv(a, b) == IF b[1] = 0 THEN ZeroDivisionError ELSE Rat(a[1] * b[2], a[2] * b[1])
RMin(a, b) == IF RLe(a, b) THEN a ELSE b
RMax(a, b) == IF RLe(a, b) THEN b ELSE a

(***************************************************************************)
(* np.log1p(v) for v > 0, in fixed point with LogScale steps per unit:     *)
(* 1+v = 2^e * m with 1 <= m < 2, ln(1+v) = e*ln 2 + 2*atanh((m-1)/(m+1)). *)
(* The result is ln(1+v) up to an error below 1/100.                       *)
(***************************************************************************)
LogScale == 1000
Ln2Micro == 693147      \* ln 2 in millionths

RECURSIVE Pow2(_)
Pow2(e) == IF e = 0 THEN 1 ELSE 2 * Pow2(e - 1)

\* the largest e with d * 2^e <= x  (x >= d > 0)
RECURSIVE Log2Floor(_, _)
Log2Floor(x, d) == IF x < 2 * d THEN 0 ELSE 1 + Log2Floor(x, 2 * d)

Log1p(v) ==
    LET x == v[1] + v[2]
        e == Log2Floor(x, v[2])
        m == (x * LogScale) \div (v[2] * Pow2(e))
        z == ((m - LogScale) * LogScale) \div (m + LogScale)
        z2 == (z * z) \div LogScale
        z3 == (z2 * z) \div LogScale
        z5 == (z3 * z2) \div LogScale
        z7 == (z5 * z2) \div LogScale
        lnm == 2 * (z + z3 \div 3 + z5 \div 5 + z7 \div 7)
    IN  Rat((e * Ln2Micro) \div (1000000 \div LogScale) + lnm, LogScale)

(***************************************************************************)
(* destination_schema.py: DestinationFeatures                              *)
(***************************************************************************)
\* __dataclass_fields__, in declaration order
FieldOrder ==
    << "avg_temp_c", "tourism_density", "wikipedia_pageviews", "accommodation_density",
       "population", "population_density", "coast_distance_km", "nature_ratio",
       "elevation", "skiing_score", "water_sports_score", "hiking_score",
       "wildlife_score", "nightlife_density", "development_level", "gdp_per_capita" >>
FieldNames == {FieldOrder[i] : i \in 1..Len(FieldOrder)}

\* DestinationFeatures(): every field defaults to 0.0
DefaultFeatures == [f \in FieldNames |-> Zero]

(***************************************************************************)
(* normalizer.py: pass 1, _calculate_statistics                            *)
(***************************************************************************)
\* ascending sort of a sequence of numbers
RECURSIVE InsertAsc(_, _)
InsertAsc(sorted, v) ==
    IF sorted = <<>> THEN <<v>>
    ELSE IF RLe(Head(sorted), v) THEN <<Head(sorted)>> \o InsertAsc(Tail(sorted), v)
         ELSE <<v>> \o sorted
RECURSIVE SortAsc(_)
SortAsc(vals) == IF vals = <<>> THEN <<>> ELSE InsertAsc(SortAsc(Tail(vals)), Head(vals))

\* np.percentile(a, q), linear interpolation, on the sorted array a
Percentile(a, q) ==
    LET pos == q * (Len(a) - 1)
        lo == pos \div 100
        fr == pos % 100
    IN  IF fr = 0 THEN a[lo + 1]
        ELSE RAdd(a[lo + 1], RMul(Rat(fr, 100), RSub(a[lo + 2], a[lo + 1])))

\* [v for v in values if v is not None and v > 0]; "v > 0" raises TypeError
\* on a value that is neither None nor a number
RECURSIVE PositiveValues(_)
PositiveValues(values) ==
    IF values = <<>> THEN [vals |-> <<>>, raised |-> FALSE]
    ELSE LET v == Head(values)
         IN  IF WrongKind(v) THEN [vals |-> <<>>, raised |-> TRUE]
             ELSE LET rest == PositiveValues(Tail(values))
                  IN  IF rest.raised THEN rest
                      ELSE IF v # None /\ RLt(Zero, v)
                           THEN [vals |-> <<v>> \o rest.vals, raised |-> FALSE]
                           ELSE rest

\* the statistics of a non-empty array of positive values / of an empty one
DefaultStatistics == [min |-> Zero, max |-> One, median |-> Half]
StatisticsOf(vals) ==
    IF vals = <<>> THEN DefaultStatistics
    ELSE LET a == SortAsc(vals)
         IN  [min |-> a[1], max |-> a[Len(a)], median |-> Percentile(a, 50),
              p25 |-> Percentile(a, 25), p75 |-> Percentile(a, 75),
              p90 |-> Percentile(a, 90)]

\* mutant: only the first destination's value is collected
FeatureValues_FirstOnly(dests, field) == <<dests[1].features[field]>>

\* feature_values[field_name]: the field's value of every destination
FeatureValues(dests, field) == [d \in 1..Len(dests) |-> dests[d].features[field]]

\* mutant: an entry of an earlier run is kept
UpdateStats_KeepOld(st, field, fs) == IF DictHas(st, field) THEN st ELSE DictSet(st, field, fs)

\* lines 56 and 61: self.stats[field_name] = {...}
UpdateStats(st, field, fs) == DictSet(st, field, fs)

\* the loop over feature_values.items(): self.stats is updated field by
\* field, up to the first field whose filter raises
RECURSIVE CalcStats(_, _, _)
CalcStats(st, dests, fields) ==
    IF fields = <<>> THEN [stats |-> st, raised |-> FALSE]
    ELSE LET pv == PositiveValues(FeatureValues(dests, Head(fields)))
         IN  IF pv.raised THEN [stats |-> st, raised |-> TRUE]
             ELSE CalcStats(UpdateStats(st, Head(fields), StatisticsOf(pv.vals)),
                            dests, Tail(fields))

(***************************************************************************)
(* normalizer.py: pass 2, _normalize_features                              *)
(***************************************************************************)
\* mutant: the upper bound is not tested
NormalizeLinear_NoUpper(value, min_val, max_val) ==
    IF value = None THEN Zero
    ELSE IF ~IsNum(value) THEN TypeError
    ELSE IF RLe(value, min_val) THEN Zero
    ELSE RDiv(RSub(value, min_val), RSub(max_val, min_val))

\* _normalize_linear(value, min_val, max_val)
NormalizeLinear(value, min_val, max_val) ==
    IF value = None THEN Zero
    ELSE IF ~IsNum(value) THEN TypeError
    ELSE IF RLe(value, min_val) THEN Zero
    ELSE IF RLe(max_val, value) THEN One
    ELSE RDiv(RSub(value, min_val), RSub(max_val, min_val))

\* min(max(normalized, 0.0), 1.0)
Clamp01(x) == IF Raised(x) THEN x ELSE RMin(RMax(x, Zero), One)

\* mutant: the guard against equal minimum and maximum is missing
Degenerate_Never(st) == FALSE

\* the test "max_val == min_val" of _normalize_percentile
Degenerate(st) == st.max = st.min

\* mutant: the value is scaled against the maximum alone
NormalizePercentile_FromZero(value, feature_name, st) ==
    IF ~IsNum(value) THEN TypeError
    ELSE IF RLe(value, Zero) THEN Zero
    ELSE IF ~DictHas(st, feature_name) THEN Half
    ELSE LET fs == DictGet(st, feature_name)
         IN  IF Degenerate(fs) THEN Half
             ELSE Clamp01(RDiv(value, fs.max))

\* _normalize_percentile(value, feature_name): "value <= 0" raises TypeError
\* on None
NormalizePercentile(value, feature_name, st) ==
    IF ~IsNum(value) THEN TypeError
    ELSE IF RLe(value, Zero) THEN Zero
    ELSE IF ~DictHas(st, feature_name) THEN Half
    ELSE LET fs == DictGet(st, feature_name)
         IN  IF Degenerate(fs) THEN Half
             ELSE Clamp01(RDiv(RSub(value, fs.min), RSub(fs.max, fs.min)))

\* _normalize_value(value, feature_name)
NormalizeValue(value, feature_name, st) ==
    IF ~DictHas(st, feature_name) THEN Half
    ELSE LET fs == DictGet(st, feature_name)
         IN  NormalizeLinear(value, fs.min, fs.max)

\* lines 89-96: "features.wikipedia_pageviews > 0" raises TypeError on None
NormalizePageviews(value, st) ==
    IF ~IsNum(value) THEN TypeError
    ELSE IF RLt(Zero, value) THEN NormalizeValue(Log1p(value), "wikipedia_pageviews", st)
    ELSE Zero

\* mutant: development_level is normalised like the activity scores
NormSteps_Development ==
    << [field |-> "avg_temp_c",            how |-> "linear", lo |-> Num(-15), hi |-> Num(45)],
       [field |-> "tourism_density",       how |-> "percentile"],
       [field |-> "accommodation_density", how |-> "percentile"],
       [field |-> "nightlife_density",     how |-> "percentile"],
       [field |-> "wikipedia_pageviews",   how |-> "log"],
       [field |-> "coast_distance_km",     how |-> "linear", lo |-> Num(0), hi |-> Num(500)],
       [field |-> "nature_ratio",          how |-> "percentile"],
       [field |-> "skiing_score",          how |-> "percentile"],
       [field |-> "hiking_score",          how |-> "percentile"],
       [field |-> "wildlife_score",        how |-> "percentile"],
       [field |-> "development_level",     how |-> "percentile"] >>

\* the assignments of _normalize_features, in order
NormSteps ==
    << [field |-> "avg_temp_c",            how |-> "linear", lo |-> Num(-15), hi |-> Num(45)],
       [field |-> "tourism_density",       how |-> "percentile"],
       [field |-> "accommodation_density", how |-> "percentile"],
       [field |-> "nightlife_density",     how |-> "percentile"],
       [field |-> "wikipedia_pageviews",   how |-> "log"],
       [field |-> "coast_distance_km",     how |-> "linear", lo |-> Num(0), hi |-> Num(500)],
       [field |-> "nature_ratio",          how |-> "percentile"],
       [field |-> "skiing_score",          how |-> "percentile"],
       [field |-> "hiking_score",          how |-> "percentile"],
       [field |-> "wildlife_score",        how |-> "percentile"] >>

StepValue(features, step, st) ==
    CASE step.how = "linear"     -> NormalizeLinear(features[step.field], step.lo, step.hi)
      [] step.how = "percentile" -> NormalizePercentile(features[step.field], step.field, st)
      [] step.how = "log"        -> NormalizePageviews(features[step.field], st)

\* the features object is rewritten field by field; an exception leaves the
\* fields assigned before it rewritten and the others raw
RECURSIVE ApplySteps(_, _, _)
ApplySteps(features, steps, st) ==
    IF steps = <<>> THEN [features |-> features, exc |-> None]
    ELSE LET v == StepValue(features, Head(steps), st)
         IN  IF Raised(v) THEN [features |-> features, exc |-> v]
             ELSE ApplySteps([features EXCEPT ![Head(steps).field] = v], Tail(steps), st)

NormalizeFeatures(features, st) == ApplySteps(features, NormSteps, st)

(***************************************************************************)
(* The batches normalize_all is called with.  A batch varies one field     *)
(* over the raw values of that field; the other fields keep the default.   *)
(***************************************************************************)
RawValues(field) ==
    CASE field = "avg_temp_c" ->
            {None, Num(-20), Num(15), Num(45), Num(50)}
      [] field = "coast_distance_km" ->
            {None, Num(0), Num(100), Num(500), Num(600)}
      [] field = "wikipedia_pageviews" ->
            {None, Num(0), Num(1), Num(10000), Num(500000)}
      [] field \in {"population", "population_density", "elevation",
                    "water_sports_score", "development_level", "gdp_per_capita"} ->
            {None, Num(0), <<7, 10>>, Num(1), Num(1200)}
      [] OTHER ->
            {None, Num(-1), Num(0), <<3, 10>>, <<7, 10>>}

BatchesOf(field, n) ==
    { [d \in 1..n |-> [id |-> d, features |-> [DefaultFeatures EXCEPT ![field] = vs[d]]]] :
        vs \in [1..n -> RawValues(field)] }
Batches(max) == UNION { BatchesOf(field, n) : field \in FieldNames, n \in 0..max }

(***************************************************************************)
(* normalizer.py: normalize_all                                            *)
(***************************************************************************)
\* lines 21-26: the call; an empty list is returned at once
NormalizeAll(batch) ==
    /\ n_pc = "idle"
    /\ destinations' = batch
    /\ raw' = batch
    /\ IF batch = <<>>
       THEN /\ n_returned' = batch
            /\ n_pc' = "done"
       ELSE /\ n_pc' = "pass1"
            /\ UNCHANGED n_returned
    /\ n_calls' = n_calls + 1
    /\ UNCHANGED <<stats, n_i, n_exc, s_vars, other, x_vars>>

\* mutant: an exception of pass 1 is swallowed and pass 2 runs
CalculateStatistics_Swallow ==
    /\ n_pc = "pass1"
    /\ LET r == CalcStats(stats, destinations, FieldOrder)
       IN  /\ stats' = r.stats
           /\ n_pc' = "pass2"
           /\ n_exc' = n_exc
    /\ n_i' = 1
    /\ UNCHANGED <<destinations, raw, n_returned, s_vars, n_calls, other, x_vars>>

\* lines 28-29 and 38-68: pass 1
CalculateStatistics ==
    /\ n_pc = "pass1"
    /\ LET r == CalcStats(stats, destinations, FieldOrder)
       IN  /\ stats' = r.stats
           /\ n_pc' = IF r.raised THEN "raised" ELSE "pass2"
           /\ n_exc' = IF r.raised THEN TypeError ELSE n_exc
    /\ n_i' = 1
    /\ UNCHANGED <<destinations, raw, n_returned, s_vars, n_calls, other, x_vars>>

\* mutant: the rewritten features are stored into the first destination
StoreFeatures_First(dests, i, features) == [dests EXCEPT ![1].features = features]

\* line 33: dest.features = ..., for the i-th destination of the list
StoreFeatures(dests, i, features) == [dests EXCEPT ![i].features = features]

\* lines 32-33 and 70-122: pass 2, one destination
NormalizeDestination ==
    /\ n_pc = "pass2"
    /\ n_i <= Len(destinations)
    /\ LET r == NormalizeFeatures(destinations[n_i].features, stats)
       IN  /\ destinations' = StoreFeatures(destinations, n_i, r.features)
           /\ IF Raised(r.exc)
              THEN n_pc' = "raised" /\ n_exc' = r.exc /\ UNCHANGED n_i
              ELSE n_i' = n_i + 1 /\ UNCHANGED <<n_pc, n_exc>>
    /\ UNCHANGED <<stats, raw, n_returned, s_vars, n_calls, other, x_vars>>

\* lines 35-36: return destinations
NormalizeReturn ==
    /\ n_pc = "pass2"
    /\ n_i > Len(destinations)
    /\ n_returned' = destinations
    /\ n_pc' = "done"
    /\ UNCHANGED <<stats, destinations, n_i, n_exc, raw, s_vars, n_calls, other, x_vars>>

\* a caller invokes normalize_all on one of the batches
CallNormalizeAll == n_pc = "idle" /\ \E batch \in Batches(MaxBatch) : NormalizeAll(batch)

NormalizerNext ==
    \/ CallNormalizeAll
    \/ CalculateStatistics
    \/ NormalizeDestination
    \/ NormalizeReturn

\* a fresh normaliser; the loader is idle
NormalizerSpecInit == SamplerInitOn({<<>>}) /\ NormalizerInit /\ PipelineIdle
SpecNormalizer == NormalizerSpecInit /\ [][NormalizerNext]_vars

\* batches in which a feature extractor left a str in one of the fields
KindValues == {Str, None, Zero, <<7, 10>>}
KindBatchesOf(field, n) ==
    { [d \in 1..n |-> [id |-> d, features |-> [DefaultFeatures EXCEPT ![field] = vs[d]]]] :
        vs \in [1..n -> KindValues] }
KindBatches(max) == UNION { KindBatchesOf(field, n) : field \in FieldNames, n \in 0..max }

\* a caller invokes normalize_all on one of these batches
CallNormalizeAllKinds == n_pc = "idle" /\ \E batch \in KindBatches(MaxBatch) : NormalizeAll(batch)

NormalizerKindsNext ==
    \/ CallNormalizeAllKinds
    \/ CalculateStatistics
    \/ NormalizeDestination
    \/ NormalizeReturn

SpecNormalizerKinds == NormalizerSpecInit /\ [][NormalizerKindsNext]_vars

\* one FeatureNormalizer object used for call after call: the batches of
\* the calls, and the caller going on after a call returned or raised
\* (self.stats stays as the call left it)
RepeatFields == {"tourism_density", "wikipedia_pageviews"}
RepeatValues(field) ==
    IF field = "wikipedia_pageviews" THEN {Num(1), Num(10000)}
    ELSE {Str, <<3, 10>>, <<7, 10>>}
RepeatBatchesOf(field, n) ==
    { [d \in 1..n |-> [id |-> d, features |-> [DefaultFeatures EXCEPT ![field] = vs[d]]]] :
        vs \in [1..n -> RepeatValues(field)] }
RepeatBatches == UNION { RepeatBatchesOf(field, n) : field \in RepeatFields, n \in 0..MaxBatch }

CallNormalizeAllAgain ==
    /\ n_pc = "idle"
    /\ n_calls < MaxCalls
    /\ \E batch \in RepeatBatches : NormalizeAll(batch)

CallerGoesOn ==
    /\ n_pc \in {"done", "raised"}
    /\ n_pc' = "idle"
    /\ n_returned' = <<>>
    /\ n_exc' = <<0, 0>>
    /\ n_i' = 1
    /\ UNCHANGED <<stats, destinations, raw, s_vars, n_calls, other, x_vars>>

NormalizerRepeatNext ==
    \/ CallNormalizeAllAgain
    \/ CalculateStatistics
    \/ NormalizeDestination
    \/ NormalizeReturn
    \/ CallerGoesOn

SpecNormalizerRepeat == NormalizerSpecInit /\ [][NormalizerRepeatNext]_vars

\* two threads call normalize_all on the same FeatureNormalizer object, each
\* with a list of its own; the threads are switched between the steps of
\* the calls, and self.stats is the one dict of the object
ThreadValues == {<<3, 10>>, <<7, 10>>}
ThreadBatches ==
    UNION { { [d \in 1..n |-> [id |-> d, features |->
                   [DefaultFeatures EXCEPT !["tourism_density"] = vs[d]]]] :
              vs \in [1..n -> ThreadValues] } : n \in 0..MaxBatch }

CallNormalizeAllThread == n_pc = "idle" /\ \E batch \in ThreadBatches : NormalizeAll(batch)

\* lines 21-26 in the second thread
OtherNormalizeAll(batch) ==
    /\ other.pc = "idle"
    /\ other' = [other EXCEPT !.destinations = batch, !.raw = batch,
                              !.returned = IF batch = <<>> THEN batch ELSE @,
                              !.pc = IF batch = <<>> THEN "done" ELSE "pass1"]
    /\ UNCHANGED <<stats, destinations, n_pc, n_i, n_exc, raw, n_returned, n_calls, s_vars, x_vars>>

OtherCallNormalizeAll ==
    other.pc = "idle" /\ \E batch \in ThreadBatches : OtherNormalizeAll(batch)

\* lines 28-29 and 38-68 in the second thread
OtherCalculateStatistics ==
    /\ other.pc = "pass1"
    /\ LET r == CalcStats(stats, other.destinations, FieldOrder)
       IN  /\ stats' = r.stats
           /\ other' = [other EXCEPT !.pc = IF r.raised THEN "raised" ELSE "pass2",
                                     !.exc = IF r.raised THEN TypeError ELSE @,
                                     !.i = 1]
    /\ UNCHANGED <<destinations, n_pc, n_i, n_exc, raw, n_returned, n_calls, s_vars, x_vars>>

\* lines 32-33 and 70-122 in the second thread
OtherNormalizeDestination ==
    /\ other.pc = "pass2"
    /\ other.i <= Len(other.destinations)
    /\ LET r == NormalizeFeatures(other.destinations[other.i].features, stats)
       IN  other' = [other EXCEPT
                        !.destinations = StoreFeatures(@, other.i, r.features),
                        !.pc = IF Raised(r.exc) THEN "raised" ELSE @,
                        !.exc = IF Raised(r.exc) THEN r.exc ELSE @,
                        !.i = IF Raised(r.exc) THEN @ ELSE @ + 1]
    /\ UNCHANGED <<stats, destinations, n_pc, n_i, n_exc, raw, n_returned, n_calls, s_vars, x_vars>>

\* lines 35-36 in the second thread
OtherNormalizeReturn ==
    /\ other.pc = "pass2"
    /\ other.i > Len(other.destinations)
    /\ other' = [other EXCEPT !.returned = other.destinations, !.pc = "done"]
    /\ UNCHANGED <<stats, destinations, n_pc, n_i, n_exc, raw, n_returned, n_calls, s_vars, x_vars>>

NormalizerThreadsNext ==
    \/ CallNormalizeAllThread
    \/ CalculateStatistics
    \/ NormalizeDestination
    \/ NormalizeReturn
    \/ OtherCallNormalizeAll
    \/ OtherCalculateStatistics
    \/ OtherNormalizeDestination
    \/ OtherNormalizeReturn

SpecNormalizerThreads == NormalizerSpecInit /\ [][NormalizerThreadsNext]_vars

(***************************************************************************)
(* Claims about the normaliser.                                            *)
(***************************************************************************)
PercentileFields ==
    {"tourism_density", "accommodation_density", "nightlife_density", "nature_ratio",
     "skiing_score", "hiking_score", "wildlife_score"}
InUnit(v) == IsNum(v) /\ RLe(Zero, v) /\ RLe(v, One)
AllNumeric(batch) == \A d \in 1..Len(batch) : \A f \in FieldNames : IsNum(batch[d].features[f])
\* the positive raw values of a field in the batch
PositiveRaw(f) ==
    {raw[d].features[f] : d \in {e \in 1..Len(raw) :
        IsNum(raw[e].features[f]) /\ RLt(Zero, raw[e].features[f])}}

\* C6: after normalize_all returns on numeric raw values, every one of the
\* 16 feature values of every destination is in [0, 1].
C6_RangeAllFields ==
    (n_pc = "done" /\ AllNumeric(raw)) =>
        \A d \in 1..Len(n_returned) : \A f \in FieldNames : InUnit(n_returned[d].features[f])

\* C7: the list normalize_all returns has the length of the input and its
\* i-th element is the i-th input destination, normalised against the
\* statistics of the batch.
C7_OrderPreserved ==
    n_pc = "done" =>
        /\ Len(n_returned) = Len(raw)
        /\ \A d \in 1..Len(raw) :
            /\ n_returned[d].id = raw[d].id
            /\ n_returned[d].features = NormalizeFeatures(raw[d].features, stats).features

\* C7 witness: normalize_all returned a batch of at least two destinations
\* whose normalised features differ from one another and from the raw ones.
C7_Witness ==
    /\ n_pc = "done"
    /\ Len(n_returned) >= 2
    /\ n_returned[1].features # n_returned[2].features
    /\ \A d \in 1..Len(raw) : n_returned[d].features # raw[d].features

\* C8: a None raw value of a percentile-relative feature or of
\* wikipedia_pageviews normalises to 0, and normalize_all does not raise.
C8_NullYieldsZero ==
    \A d \in 1..Len(raw) : \A f \in PercentileFields \cup {"wikipedia_pageviews"} :
        raw[d].features[f] = None =>
            /\ n_pc # "raised"
            /\ n_pc = "done" => n_returned[d].features[f] = Zero

\* C9: when the positive values of a percentile-relative feature in the
\* batch are all equal, the statistics have max = min, every record with a
\* positive raw value of the feature is rewritten to exactly 1/2, and no
\* division by zero occurs.
C9_DegenerateHalf ==
    /\ n_exc # ZeroDivisionError
    /\ \A f \in PercentileFields :
        (/\ n_pc \in {"pass2", "done", "raised"}
         /\ DictHas(stats, f)
         /\ Cardinality(PositiveRaw(f)) = 1)
        => /\ DictGet(stats, f).max = DictGet(stats, f).min
           /\ \A d \in 1..Len(raw) :
                (d < n_i /\ raw[d].features[f] \in PositiveRaw(f))
                    => destinations[d].features[f] = Half

\* C9 witness: normalize_all returned a batch with two equal positive values
\* and a zero value of a percentile-relative feature.
C9_Witness ==
    /\ n_pc = "done"
    /\ \E f \in PercentileFields :
        /\ Cardinality(PositiveRaw(f)) = 1
        /\ \E a, b, c \in 1..Len(raw) :
            /\ a # b
            /\ raw[a].features[f] \in PositiveRaw(f)
            /\ raw[b].features[f] \in PositiveRaw(f)
            /\ raw[c].features[f] = Zero
            /\ n_returned[a].features[f] = Half
            /\ n_returned[b].features[f] = Half
            /\ n_returned[c].features[f] = Zero

\* C10: for raw pageviews [0, 10000, 500000] the three normalised values
\* are strictly increasing and the first is exactly 0.
C10_PageviewsIncreasing ==
    (/\ n_pc = "done"
     /\ Len(raw) = 3
     /\ raw[1].features["wikipedia_pageviews"] = Num(0)
     /\ raw[2].features["wikipedia_pageviews"] = Num(10000)
     /\ raw[3].features["wikipedia_pageviews"] = Num(500000))
    => /\ n_returned[1].features["wikipedia_pageviews"] = Zero
       /\ RLt(n_returned[1].features["wikipedia_pageviews"],
              n_returned[2].features["wikipedia_pageviews"])
       /\ RLt(n_returned[2].features["wikipedia_pageviews"],
              n_returned[3].features["wikipedia_pageviews"])

\* the linear-bounded strategy as the specification states it
LinearBounded(v, lo, hi) ==
    IF RLe(v, lo) THEN Zero
    ELSE IF RLe(hi, v) THEN One
    ELSE RDiv(RSub(v, lo), RSub(hi, lo))
\* the linear-bounded features with their bounds
LinearBounds ==
    [f \in {"avg_temp_c", "coast_distance_km"} |->
        IF f = "avg_temp_c" THEN <<Num(-15), Num(45)>> ELSE <<Num(0), Num(500)>>]

\* C11: a linear-bounded feature with bounds [lo, hi] is rewritten to 0 for
\* a value <= lo, to 1 for a value >= hi and to (v - lo) / (hi - lo) in
\* between, whatever the statistics; with [-15, 45] the inputs -20, 50 and
\* 15 give 0, 1 and 1/2.
C11_LinearBounded ==
    \A d \in 1..Len(raw) : \A f \in DOMAIN LinearBounds :
        (d < n_i /\ n_pc \in {"pass2", "done", "raised"} /\ IsNum(raw[d].features[f])) =>
            /\ destinations[d].features[f]
                   = LinearBounded(raw[d].features[f], LinearBounds[f][1], LinearBounds[f][2])
            /\ (f = "avg_temp_c" /\ raw[d].features[f] = Num(-20))
                   => destinations[d].features[f] = Zero
            /\ (f = "avg_temp_c" /\ raw[d].features[f] = Num(50))
                   => destinations[d].features[f] = One
            /\ (f = "avg_temp_c" /\ raw[d].features[f] = Num(15))
                   => destinations[d].features[f] = Half

\* C11 witness: normalize_all returned a batch whose temperatures were -20,
\* 50 and 15 and are now 0, 1 and 1/2.
C11_Witness ==
    /\ n_pc = "done"
    /\ Len(raw) = 3
    /\ raw[1].features["avg_temp_c"] = Num(-20)
    /\ raw[2].features["avg_temp_c"] = Num(50)
    /\ raw[3].features["avg_temp_c"] = Num(15)
    /\ n_returned[1].features["avg_temp_c"] = Zero
    /\ n_returned[2].features["avg_temp_c"] = One
    /\ n_returned[3].features["avg_temp_c"] = Half

PassThroughFields == {"development_level", "gdp_per_capita", "water_sports_score"}

\* C12: development_level, gdp_per_capita and water_sports_score of every
\* destination of the batch are left as they were by normalize_all.
C12_PassThrough ==
    /\ \A d \in 1..Len(raw) : \A f \in PassThroughFields :
        destinations[d].features[f] = raw[d].features[f]
    /\ n_pc = "done" =>
        \A d \in 1..Len(raw) : \A f \in PassThroughFields :
            n_returned[d].features[f] = raw[d].features[f]

\* C12 witness: normalize_all returned a batch of three destinations with
\* development_level 0.7 each, still 0.7 each.
C12_Witness ==
    /\ n_pc = "done"
    /\ Len(raw) = 3
    /\ \A d \in 1..3 : raw[d].features["development_level"] = <<7, 10>>
    /\ \A d \in 1..3 : n_returned[d].features["development_level"] = <<7, 10>>

\* C13: after normalize_all the feature values of the destinations that the
\* caller passed in are the raw values of before the call.
C13_InputUnchanged == n_pc = "done" => destinations = raw

HasWrongKind(batch) ==
    \E d \in 1..Len(batch) : \E f \in FieldNames : WrongKind(batch[d].features[f])

\* C15: when some raw value of the batch is neither a number nor null,
\* normalize_all does not return: it raises during pass 1, and no
\* destination's features have been rewritten.
C15_WrongKindFailsInPassOne ==
    HasWrongKind(raw) =>
        /\ n_pc \in {"pass1", "raised"}
        /\ n_pc = "raised" => n_exc = TypeError
        /\ destinations = raw
        /\ n_returned = <<>>

\* C15 witness: normalize_all raised on a batch whose only value of the
\* wrong kind is the gdp_per_capita of the third destination, a field that
\* pass 2 never reads.
C15_Witness ==
    /\ n_pc = "raised"
    /\ n_exc = TypeError
    /\ Len(raw) = 3
    /\ raw[3].features["gdp_per_capita"] = Str
    /\ ~HasWrongKind(SubSeq(raw, 1, 2))
    /\ destinations = raw

\* normalize_all(batch) on a freshly constructed FeatureNormalizer: the
\* outcome, the exception, and the destinations as the call leaves them
RECURSIVE FreshPassTwo(_, _, _)
FreshPassTwo(dests, i, st) ==
    IF i > Len(dests) THEN [outcome |-> "done", exc |-> None, value |-> dests]
    ELSE LET r == NormalizeFeatures(dests[i].features, st)
             ds == StoreFeatures(dests, i, r.features)
         IN  IF Raised(r.exc) THEN [outcome |-> "raised", exc |-> r.exc, value |-> ds]
             ELSE FreshPassTwo(ds, i + 1, st)
FreshResult(batch) ==
    IF batch = <<>> THEN [outcome |-> "done", exc |-> None, value |-> batch]
    ELSE LET cs == CalcStats(<<>>, batch, FieldOrder)
         IN  IF cs.raised THEN [outcome |-> "raised", exc |-> TypeError, value |-> batch]
             ELSE FreshPassTwo(batch, 1, cs.stats)

\* C17: whatever calls the FeatureNormalizer object has served before
\* (empty batches included), normalize_all(B) returns, or raises, what it
\* does on a freshly constructed object.
C17_StatelessBetweenCalls ==
    /\ n_pc = "done" =>
          /\ FreshResult(raw).outcome = "done"
          /\ n_returned = FreshResult(raw).value
    /\ n_pc = "raised" =>
          /\ FreshResult(raw).outcome = "raised"
          /\ n_exc = FreshResult(raw).exc
          /\ destinations = FreshResult(raw).value

\* C17 witness: the second call on an object returned the batch
\* [0.3, 0.7] of tourism_density as [0, 1].
C17_Witness ==
    /\ n_pc = "done"
    /\ Len(raw) = 2
    /\ raw[1].features["tourism_density"] = <<3, 10>>
    /\ raw[2].features["tourism_density"] = <<7, 10>>
    /\ n_returned[1].features["tourism_density"] = Zero
    /\ n_returned[2].features["tourism_density"] = One
    /\ n_calls >= 2

\* C16: however the steps of two normalize_all calls on lists of their own
\* are interleaved, on one FeatureNormalizer object, each call returns what
\* it returns when run alone.
C16_InterleavingIndependent ==
    /\ n_pc = "done" => n_returned = FreshResult(raw).value
    /\ other.pc = "done" => other.returned = FreshResult(other.raw).value

RMinOf(S) == CHOOSE v \in S : \A w \in S : RLe(v, w)
RMaxOf(S) == CHOOSE v \in S : \A w \in S : RLe(w, v)

\* C24: pass 1 ends before pass 2 rewrites a destination, and pass 2 does
\* not touch the statistics: while pass 1 runs the batch is raw; from then
\* on the statistics of every field are those of the positive raw values
\* of ALL records of the batch, every destination rewritten so far was
\* normalised against them, and the others are still raw (an empty batch
\* is returned without a pass).
C24_TwoPasses ==
    /\ n_pc = "pass1" => destinations = raw
    /\ (raw # <<>> /\ n_pc \in {"pass2", "done", "raised"}) =>
          /\ \A f \in FieldNames :
                LET st == DictGet(stats, f)
                IN  IF PositiveRaw(f) = {}
                    THEN st = DefaultStatistics
                    ELSE st.min = RMinOf(PositiveRaw(f)) /\ st.max = RMaxOf(PositiveRaw(f))
          /\ \A d \in 1..Len(raw) :
                /\ d < n_i => destinations[d].features
                                 = NormalizeFeatures(raw[d].features, stats).features
                /\ d > n_i => destinations[d] = raw[d]
                /\ (d = n_i /\ n_pc = "pass2") => destinations[d] = raw[d]

\* C24 witness: pass 2 has rewritten the first of three destinations
\* against statistics whose maximum is the raw value of the third, which
\* is not rewritten yet.
C24_Witness ==
    /\ n_pc = "pass2"
    /\ n_i = 2
    /\ Len(raw) = 3
    /\ raw[1].features["tourism_density"] = <<3, 10>>
    /\ raw[2].features["tourism_density"] = <<3, 10>>
    /\ raw[3].features["tourism_density"] = <<7, 10>>
    /\ DictGet(stats, "tourism_density").max = <<7, 10>>
    /\ destinations[1].features["tourism_density"] = Zero
    /\ destinations[3] = raw[3]

\* C25: in a batch with at least two distinct positive pageview values the
\* record with the largest value is returned with 1 and the record with
\* the smallest positive value with 0.
C25_PageviewsLogRelative ==
    LET f == "wikipedia_pageviews"
    IN  (n_pc = "done" /\ Cardinality(PositiveRaw(f)) >= 2) =>
            \A d \in 1..Len(raw) :
                /\ raw[d].features[f] = RMaxOf(PositiveRaw(f))
                       => n_returned[d].features[f] = One
                /\ raw[d].features[f] = RMinOf(PositiveRaw(f))
                       => n_returned[d].features[f] = Zero

\* a feature is sparse in the batch: no positive value (zeros, negative
\* values, nulls), or all positive values equal
Sparse(f) == Cardinality(PositiveRaw(f)) <= 1

\* C26: on a batch in which the features are sparse normalize_all does not
\* raise: pass 1 yields the default statistics for a feature without a
\* positive value and min = max for one whose positive values are equal,
\* and the whole batch is returned.
C26_SparseCompletes ==
    (raw # <<>> /\ \A f \in FieldNames : Sparse(f)) =>
        /\ n_pc # "raised"
        /\ n_pc \in {"pass2", "done"} =>
              \A f \in FieldNames :
                  IF PositiveRaw(f) = {} THEN DictGet(stats, f) = DefaultStatistics
                  ELSE DictGet(stats, f).min = DictGet(stats, f).max
        /\ n_pc = "done" => Len(n_returned) = Len(raw)

\* C27: when the positive values of a percentile-relative feature in the
\* batch are not all equal, the returned value is monotone non-decreasing
\* in the raw value, the largest raw value is returned as 1, and the
\* smallest positive raw value as 0, like a zero or negative raw value.
C27_PercentileMonotone ==
    \A f \in PercentileFields :
        (n_pc = "done" /\ Cardinality(PositiveRaw(f)) >= 2) =>
            \A d \in 1..Len(raw) :
                LET v == raw[d].features[f]
                    out == n_returned[d].features[f]
                IN  /\ \A d2 \in 1..Len(raw) :
                          RLe(v, raw[d2].features[f]) => RLe(out, n_returned[d2].features[f])
                    /\ v = RMaxOf(PositiveRaw(f)) => out = One
                    /\ v = RMinOf(PositiveRaw(f)) => out = Zero
                    /\ RLe(v, Zero) => out = Zero

\* C27 witness: normalize_all returned a batch whose values of a
\* percentile-relative feature were negative, 0.3 and 0.7 as 0, 0 and 1.
C27_Witness ==
    /\ n_pc = "done"
    /\ Len(raw) = 3
    /\ \E f \in PercentileFields :
          /\ raw[1].features[f] = Num(-1)
          /\ raw[2].features[f] = <<3, 10>>
          /\ raw[3].features[f] = <<7, 10>>
          /\ n_returned[1].features[f] = Zero
          /\ n_returned[2].features[f] = Zero
          /\ n_returned[3].features[f] = One

(***************************************************************************)
(* run_ingestion.py: main, steps 1 to 3                                    *)
(***************************************************************************)
\* the lists fetch_destinations hands to main: every destination is
\* created with the default features (fetch_destinations.py line 75)
FetchedLists == { [d \in 1..n |-> [id |-> d, features |-> DefaultFeatures]] : n \in 0..MaxBatch }

\* what a run of extract_features on a destination can do: return with
\* the temperature of the weather service, return with the estimate by
\* latitude after _get_climate_data swallowed a failure of the service,
\* or raise (a client outside the try blocks failed)
ExtractOutcomes == {"climate", "estimate", "raise"}
ExtractedFeatures(outcome) ==
    [DefaultFeatures EXCEPT !["avg_temp_c"] = IF outcome = "climate" THEN Num(15) ELSE Num(18),
                            !["wikipedia_pageviews"] = Num(10000)]

\* mutant: a failed extraction ends the loop
AfterFailure_Break(i, n) == n + 1

\* lines 56-58: except Exception: ...; continue -- the next destination
AfterFailure(i, n) == i + 1

\* lines 39-42: destinations = fetcher.fetch_destinations(limit=limit)
IngestFetch ==
    /\ ingest.pc = "idle"
    /\ \E ds \in FetchedLists :
          ingest' = [ingest EXCEPT !.pc = "extract", !.destinations = ds, !.fetched = ds,
                                   !.i = 1]
    /\ UNCHANGED <<s_vars, n_vars, upload, fetch>>

\* lines 53-58: one iteration of the extraction loop; extract_features
\* assigns destination.features as its last step (feature_extractor.py
\* lines 72-74), so a run that raises leaves the destination as it was
IngestExtract ==
    /\ ingest.pc = "extract"
    /\ ingest.i <= Len(ingest.destinations)
    /\ \E outcome \in ExtractOutcomes :
          IF outcome = "raise"
          THEN ingest' = [ingest EXCEPT
                             !.attempted = @ \cup {ingest.i},
                             !.failed = @ \cup {ingest.i},
                             !.i = AfterFailure(ingest.i, Len(ingest.destinations))]
          ELSE ingest' = [ingest EXCEPT
                             !.attempted = @ \cup {ingest.i},
                             !.destinations[ingest.i].features = ExtractedFeatures(outcome),
                             !.i = @ + 1]
    /\ UNCHANGED <<s_vars, n_vars, upload, fetch>>

\* lines 60-63: the loop is over; the destinations are saved as the
\* checkpoint data/destinations_with_features.json
IngestCheckpoint ==
    /\ ingest.pc = "extract"
    /\ ingest.i > Len(ingest.destinations)
    /\ ingest' = [ingest EXCEPT !.pc = "checkpoint", !.saved = ingest.destinations]
    /\ UNCHANGED <<s_vars, n_vars, upload, fetch>>

\* lines 66-70: normalize_all(destinations) is called
IngestNormalize ==
    /\ ingest.pc = "checkpoint"
    /\ ingest' = [ingest EXCEPT !.pc = "normalize", !.passed = ingest.destinations]
    /\ UNCHANGED <<s_vars, n_vars, upload, fetch>>

IngestNext ==
    \/ IngestFetch
    \/ IngestExtract
    \/ IngestCheckpoint
    \/ IngestNormalize

IngestInit == SamplerInitOn({<<>>}) /\ NormalizerInit /\ PipelineIdle
SpecIngest == IngestInit /\ [][IngestNext]_vars

\* C28: a failure of extract_features for a destination is swallowed: the
\* loop goes on to every remaining destination, the failed destination
\* keeps its default features, and the batch passed to normalize_all
\* holds exactly the fetched destinations in their order.
C28_ExtractionFailureSwallowed ==
    /\ \A d \in ingest.failed : ingest.destinations[d].features = DefaultFeatures
    /\ ingest.pc = "normalize" =>
          /\ ingest.attempted = 1..Len(ingest.fetched)
          /\ Len(ingest.passed) = Len(ingest.fetched)
          /\ \A d \in 1..Len(ingest.fetched) :
                /\ ingest.passed[d].id = ingest.fetched[d].id
                /\ d \in ingest.failed => ingest.passed[d].features = DefaultFeatures
                /\ d \notin ingest.failed => ingest.passed[d].features # DefaultFeatures

\* C28 witness: normalize_all is passed three destinations, the second of
\* which failed in extraction and the third of which was extracted.
C28_Witness ==
    /\ ingest.pc = "normalize"
    /\ Len(ingest.passed) = 3
    /\ ingest.failed = {2}
    /\ ingest.passed[2].features = DefaultFeatures
    /\ ingest.passed[3].features = ExtractedFeatures("estimate")

(***************************************************************************)
(* upload_to_firestore.py: delete_collection, upload_destinations.  A       *)
(* destination is its position in the input list; the collection is the    *)
(* number of documents it held before the call that are still there, and   *)
(* the batches committed to it.                                            *)
(***************************************************************************)
BatchSize == 500
DeleteBatchSize == 100

\* the lengths of the input list, the modes, and the number of documents
\* the collection holds before the call
UploadLengths == {0, 1, 499, 500, 501, 1000, 1001}
UploadModes == {"overwrite", "update"}
ExistingDocs == {0, 250}

\* mutant: the last batch is committed whatever it holds
RemainderLeft_Always(uploaded, batch_size) == TRUE

\* line 101: if uploaded % batch_size != 0
RemainderLeft(uploaded, batch_size) == uploaded % batch_size # 0

\* lines 65-77: the call; overwrite mode starts with delete_collection
UploadDestinations(n, mode, existing) ==
    /\ upload.pc = "idle"
    /\ upload' = [pc |-> IF mode = "overwrite" THEN "delete" ELSE "loop",
                  mode |-> mode, n |-> n, i |-> 1, batch |-> <<>>, uploaded |-> 0,
                  committed |-> <<>>, old_docs |-> existing, deleted |-> 0,
                  old_at_first_write |-> 0]
    /\ UNCHANGED <<s_vars, n_vars, ingest, fetch>>

CallUploadDestinations ==
    upload.pc = "idle" /\ \E n \in UploadLengths, mode \in UploadModes, existing \in ExistingDocs :
        UploadDestinations(n, mode, existing)

\* lines 47-59: one iteration of the loop of delete_collection: up to
\* batch_size documents are read and deleted in one batch; no document
\* left ends the loop
DeleteCollectionStep ==
    /\ upload.pc = "delete"
    /\ IF upload.old_docs = 0
       THEN upload' = [upload EXCEPT !.pc = "loop"]
       ELSE LET m == IF upload.old_docs < DeleteBatchSize THEN upload.old_docs
                     ELSE DeleteBatchSize
            IN  upload' = [upload EXCEPT !.old_docs = @ - m, !.deleted = @ + m]
    /\ UNCHANGED <<s_vars, n_vars, ingest, fetch>>

\* lines 86-98: one iteration of the upload loop (upload.i is i + 1)
UploadWrite ==
    /\ upload.pc = "loop"
    /\ upload.i <= upload.n
    /\ LET b == Append(upload.batch, upload.i)
           commit == upload.i % BatchSize = 0
       IN  upload' = [upload EXCEPT
                         !.batch = IF commit THEN <<>> ELSE b,
                         !.committed = IF commit THEN Append(@, b) ELSE @,
                         !.uploaded = @ + 1,
                         !.old_at_first_write = IF upload.uploaded = 0 THEN upload.old_docs ELSE @,
                         !.i = @ + 1]
    /\ UNCHANGED <<s_vars, n_vars, ingest, fetch>>

\* lines 100-104: the remaining documents are committed
UploadFinish ==
    /\ upload.pc = "loop"
    /\ upload.i > upload.n
    /\ upload' = [upload EXCEPT
                     !.committed = IF RemainderLeft(upload.uploaded, BatchSize)
                                   THEN Append(@, upload.batch) ELSE @,
                     !.pc = "done"]
    /\ UNCHANGED <<s_vars, n_vars, ingest, fetch>>

UploadNext ==
    \/ CallUploadDestinations
    \/ DeleteCollectionStep
    \/ UploadWrite
    \/ UploadFinish

UploadInit == SamplerInitOn({<<>>}) /\ NormalizerInit /\ PipelineIdle
SpecUpload == UploadInit /\ [][UploadNext]_vars

\* the committed batches that hold the write of destination d
BatchesWith(d) ==
    {c \in 1..Len(upload.committed) :
        \E x \in 1..Len(upload.committed[c]) : upload.committed[c][x] = d}

\* C29: upload_destinations writes every destination of the input list in
\* exactly one committed batch; no committed batch holds more than 500
\* writes; no empty batch is committed; and in overwrite mode no document
\* of before the call is left when the first write is added.
C29_UploadBatches ==
    upload.pc # "idle" =>
        /\ \A c \in 1..Len(upload.committed) :
              Len(upload.committed[c]) \in 1..500
        /\ Len(upload.batch) < 500
        /\ (upload.mode = "overwrite" /\ upload.uploaded > 0) =>
              (upload.old_at_first_write = 0 /\ upload.old_docs = 0)
        /\ upload.pc = "done" =>
              \A d \in 1..upload.n : Cardinality(BatchesWith(d)) = 1

\* C29 witness: an upload of 1001 destinations in overwrite mode to a
\* collection of 250 documents is done: 250 documents were deleted and
\* batches of 500, 500 and 1 writes were committed.
C29_Witness ==
    /\ upload.pc = "done"
    /\ upload.mode = "overwrite"
    /\ upload.n = 1001
    /\ upload.deleted = 250
    /\ Len(upload.committed) = 3
    /\ Len(upload.committed[1]) = 500
    /\ Len(upload.committed[2]) = 500
    /\ Len(upload.committed[3]) = 1

(***************************************************************************)
(* fetch_destinations.py: fetch_destinations, create_destination_from_raw. *)
(* A raw record is its type, its name and the set of keys it carries; the  *)
(* name of a city is its geonameid, the name of a region its position in   *)
(* the curated list.                                                       *)
(***************************************************************************)
RegionsCap == 135
DefaultMaxPerCountry == 10

\* the keys create_destination_from_raw reads (lines 58-71)
RequiredKeys == {"name", "type", "country", "continent", "lat", "lon"}

\* the limits fetch_destinations is called with: nothing asked for, a limit
\* whose two shares truncate to 0, small limits with both shares positive,
\* and a limit whose quarter exceeds the cap on regions
FetchLimits == {0, 1, 6, 16, 600}

\* the cities files of a fetch: up to two rows
FetchFiles == RowsOfLen(0) \cup RowsOfLen(1) \cup RowsOfLen(2)

\* a dict built by load_cities (geonames_loader.py lines 108-121) carries
\* every key, and 'type': 'city'
RawCity(city) == [type |-> "city", name |-> <<"city", city.geonameid>>, keys |-> RequiredKeys]
RawCities(cities) == [p \in 1..Len(cities) |-> RawCity(cities[p])]

\* the key sets of a record of the curated list: complete, or without its
\* continent
RegionKeys == {RequiredKeys, RequiredKeys \ {"continent"}}

\* get_regions(limit): some records of the curated list, of type 'region'.
\* Nothing bounds their number by the limit.
GetRegions(limit) ==
    { [p \in 1..n |-> [type |-> "region", name |-> <<"region", p>>, keys |-> ks[p]]] :
        n \in 0..MaxRegions, ks \in [1..MaxRegions -> RegionKeys] }

\* create_destination_from_raw returned None
NoDestination == [id |-> <<"None", 0>>, type |-> "None"]

\* mutant: a record is converted whatever keys it carries
CreateDestinationFromRaw_NoCheck(raw_dest) ==
    [id |-> raw_dest.name, type |-> IF raw_dest.type = "city" THEN "city" ELSE "region"]

\* lines 54-84: a missing key raises KeyError, which is caught and answered
\* by None; otherwise the destination takes its id from the name and is a
\* city exactly when raw_dest['type'] == 'city'
CreateDestinationFromRaw(raw_dest) ==
    IF ~(RequiredKeys \subseteq raw_dest.keys) THEN NoDestination
    ELSE [id |-> raw_dest.name, type |-> IF raw_dest.type = "city" THEN "city" ELSE "region"]

\* lines 25-31: the call and the split of the limit
FetchDestinations(limit) ==
    /\ fetch.pc = "idle"
    /\ fetch' = [pc |-> "cities", limit |-> limit,
                 cities_limit |-> IntTrunc(limit * 75, 100),
                 regions_limit |-> Min(RegionsCap, IntTrunc(limit * 25, 100)),
                 regions_asked |-> <<>>, raw_destinations |-> <<>>, i |-> 1,
                 all_destinations |-> <<>>, returned |-> <<>>]
    /\ UNCHANGED <<s_vars, n_vars, ingest, upload>>

CallFetchDestinations == \E limit \in FetchLimits : FetchDestinations(limit)

\* line 36: get_diverse_cities(target=cities_limit), on its default
\* max_per_country
FetchGetDiverseCities ==
    /\ fetch.pc = "cities"
    /\ returned = <<>>
    /\ GetDiverseCities(fetch.cities_limit, DefaultMaxPerCountry)

\* lines 36-42: the cities have come back; get_regions(limit=regions_limit);
\* raw_destinations = raw_cities + raw_regions
FetchGetRegions ==
    /\ fetch.pc = "cities"
    /\ s_pc = "idle"
    /\ returned # <<>>
    /\ \E raw_regions \in GetRegions(fetch.regions_limit) :
          fetch' = [fetch EXCEPT !.pc = "convert",
                                 !.regions_asked = <<fetch.regions_limit>>,
                                 !.raw_destinations = RawCities(returned[1].value) \o raw_regions]
    /\ UNCHANGED <<s_vars, n_vars, ingest, upload>>

\* lines 45-49: one iteration of the conversion loop
FetchConvert ==
    /\ fetch.pc = "convert"
    /\ fetch.i <= Len(fetch.raw_destinations)
    /\ LET dest == CreateDestinationFromRaw(fetch.raw_destinations[fetch.i])
       IN  fetch' = [fetch EXCEPT !.i = fetch.i + 1,
                                  !.all_destinations =
                                      IF dest # NoDestination THEN Append(@, dest) ELSE @]
    /\ UNCHANGED <<s_vars, n_vars, ingest, upload>>

\* lines 51-52: return all_destinations[:limit]
FetchReturn ==
    /\ fetch.pc = "convert"
    /\ fetch.i > Len(fetch.raw_destinations)
    /\ fetch' = [fetch EXCEPT !.pc = "done",
                              !.returned = PySliceTo(fetch.all_destinations, fetch.limit)]
    /\ UNCHANGED <<s_vars, n_vars, ingest, upload>>

FetchNext ==
    \/ CallFetchDestinations
    \/ FetchGetDiverseCities
    \/ ContinentSkip
    \/ ContinentStart
    \/ VisitCountry
    \/ SamplerReturn
    \/ FetchGetRegions
    \/ FetchConvert
    \/ FetchReturn

FetchInit == SamplerInitOn(FetchFiles) /\ NormalizerInit /\ PipelineIdle

SpecFetch == FetchInit /\ [][FetchNext]_vars

\* the positions of the raw list whose record carries every required key
Convertible == { p \in 1..Len(fetch.raw_destinations) :
                    RequiredKeys \subseteq fetch.raw_destinations[p].keys }

\* the names of the convertible raw records, in the order of the raw list
RECURSIVE NamesFrom(_)
NamesFrom(p) ==
    IF p > Len(fetch.raw_destinations) THEN <<>>
    ELSE (IF p \in Convertible THEN <<fetch.raw_destinations[p].name>> ELSE <<>>)
         \o NamesFrom(p + 1)

====
